---------------------------- MODULE Spec2Model ----------------------------
(***************************************************************************)
(* A model of nfm, a terminal file manager (src/src/nfm.rs).               *)
(*                                                                         *)
(* The state is the NFM struct (selection, scroll, entries, actions, mode, *)
(* show_hidden, the three prompt buffers, should_close) together with the  *)
(* parts of its environment the code reads back: the terminal (height,     *)
(* cursor column, raw mode), the filesystem (a tree of nodes and the       *)
(* working directory) and the build profile (whether integer overflow      *)
(* panics or wraps).  One action models one arm of handle_key_event /      *)
(* handle_event or one (mode, action) arm of handle_actions.               *)
(*                                                                         *)
(* Environment assumptions: the directory tree changes only through the    *)
(* session's own calls; names are ASCII; the terminal is wide enough that  *)
(* no prompt reaches its right edge and at least MinHeight rows tall.      *)
(***************************************************************************)
EXTENDS Integers, Sequences, FiniteSets, TLC

---------------------------------------------------------------------------
(* Bounds of the model.                                                    *)

\* Longest prompt buffer (and so longest file name) the user is let to type.
MaxLen == 2
\* ScrollDown is offered only while scroll is below this.
MaxScroll == 3
\* Tallest terminal a Resize event may report.
MaxHeight == 5
\* Most nodes the directory tree may hold.
MaxNodes == 6

(* Program constants.                                                      *)

\* selection and scroll are u16.
U16Modulus == 65536
\* The prompt text starts at terminal column 4.
PromptColumn == 4
\* `terminal::size()?.1 - 4`: the smallest height for which this is defined.
MinHeight == 4
\* draw() renders indices scroll .. height + scroll - 4.
ReservedRows == 3

---------------------------------------------------------------------------
(* Characters and strings.  A string is a sequence of characters.          *)

\* Characters the user types into a prompt.
Chars == {"a", "B", ".", "/"}

\* The byte value of a character (ASCII).
Ord(c) ==
    CASE c = "." -> 46
      [] c = "/" -> 47
      [] c = "B" -> 66
      [] c = "a" -> 97
      [] c = "b" -> 98
      [] OTHER -> 0

\* char::to_lowercase on ASCII.
LowerChar(c) == IF c = "B" THEN "b" ELSE c

\* str::to_lowercase
ToLowercase(s) == [i \in 1..Len(s) |-> LowerChar(s[i])]

\* str::contains: t occurs in s as a contiguous substring.
Contains(s, t) ==
    \E i \in 0..(Len(s) - Len(t)) : SubSeq(s, i + 1, i + Len(t)) = t

\* str::starts_with(char)
StartsWith(s, c) == Len(s) > 0 /\ s[1] = c

\* str::ends_with(char)
EndsWith(s, c) == Len(s) > 0 /\ s[Len(s)] = c

\* Ord for OsString: lexicographic on bytes.
BytesLess(a, b) ==
    \E i \in 1..(Len(b)) :
        /\ \A j \in 1..(i - 1) : j <= Len(a) /\ a[j] = b[j]
        /\ \/ i > Len(a)
           \/ i <= Len(a) /\ Ord(a[i]) < Ord(b[i])

\* String::insert(idx, ch); panics when idx > len (modelled by the caller).
StrInsert(s, idx, ch) ==
    SubSeq(s, 1, idx) \o <<ch>> \o SubSeq(s, idx + 1, Len(s))

\* String::remove(idx); panics when idx >= len (modelled by the caller).
StrRemove(s, idx) ==
    SubSeq(s, 1, idx) \o SubSeq(s, idx + 2, Len(s))

---------------------------------------------------------------------------
(* u16 arithmetic.                                                         *)

\* u16::saturating_sub
SatSub(a, b) == IF a > b THEN a - b ELSE 0

\* a - b in a build without overflow checks.
WrapSub(a, b) == (a - b + U16Modulus) % U16Modulus

\* a + b in a build without overflow checks.
WrapAdd(a, b) == (a + b) % U16Modulus

Min(a, b) == IF a < b THEN a ELSE b

---------------------------------------------------------------------------
(* The filesystem collaborator: a tree of nodes.  A path is the sequence   *)
(* of its components from the root; the root <<>> is always a directory.   *)
(* A node's kind is "file" (regular file), "dir", or "other" (a socket:    *)
(* neither is_file() nor is_dir()).                                        *)

Node(p, k) == [path |-> p, kind |-> k]

Exists(tree, p) == p = <<>> \/ \E n \in tree : n.path = p

KindOf(tree, p) ==
    IF p = <<>> THEN "dir" ELSE (CHOOSE n \in tree : n.path = p).kind

\* Path::is_dir
IsDir(tree, p) == Exists(tree, p) /\ KindOf(tree, p) = "dir"

IsPrefix(p, q) == Len(p) <= Len(q) /\ SubSeq(q, 1, Len(p)) = p

Parent(p) == IF p = <<>> THEN <<>> ELSE SubSeq(p, 1, Len(p) - 1)

\* read_dir(dir): the nodes directly inside dir.
ReadDir(tree, dir) ==
    {n \in tree : Len(n.path) = Len(dir) + 1 /\ IsPrefix(dir, n.path)}

\* DirEntry::file_name
FileName(n) == n.path[Len(n.path)]

\* The components of a path string, split at '/'.
RECURSIVE Components(_)
Components(s) ==
    IF \A i \in 1..Len(s) : s[i] # "/"
    THEN <<s>>
    ELSE LET i == CHOOSE k \in 1..Len(s) :
                      s[k] = "/" /\ \A j \in 1..(k - 1) : s[j] # "/"
         IN  <<SubSeq(s, 1, i - 1)>> \o Components(SubSeq(s, i + 1, Len(s)))

NoPath == <<<<"?">>>>

\* One step of path resolution from directory dir (NoPath: it fails).
Step(tree, dir, c) ==
    IF dir = NoPath THEN NoPath
    ELSE IF c = <<".">> THEN dir
    ELSE IF c = <<".", ".">> THEN Parent(dir)
    ELSE IF IsDir(tree, dir \o <<c>>) THEN dir \o <<c>>
    ELSE NoPath

RECURSIVE Walk(_, _, _)
Walk(tree, dir, comps) ==
    IF comps = <<>> THEN dir
    ELSE Walk(tree, Step(tree, dir, Head(comps)), Tail(comps))

\* Resolve the path string s relative to cwd the way the kernel does.
\* ok: every directory on the way exists; path: the node named (it need not
\* exist); special: s names ".", ".." or the root; slash: s ends with '/'.
Resolve(tree, cwd, s) ==
    LET comps == SelectSeq(Components(s), LAMBDA c : c # <<>>)
        start == IF StartsWith(s, "/") THEN <<>> ELSE cwd
        n     == Len(comps)
        dir   == IF n = 0 THEN start ELSE Walk(tree, start, SubSeq(comps, 1, n - 1))
        last  == IF n = 0 THEN <<".">> ELSE comps[n]
        dots  == last \in {<<".">>, <<".", ".">>}
    IN  [ok      |-> s # <<>> /\ dir # NoPath,
         path    |-> IF dir = NoPath THEN NoPath
                     ELSE IF dots THEN Step(tree, dir, last)
                     ELSE dir \o <<last>>,
         special |-> dots,
         slash   |-> EndsWith(s, "/")]

\* The outcome of a filesystem call: ok, and the tree afterwards.
IoOk(tree) == [ok |-> TRUE, tree |-> tree]
IoErr(tree) == [ok |-> FALSE, tree |-> tree]

\* std::fs::File::create(name): create or truncate a regular file.
FileCreate(tree, cwd, s) ==
    LET r == Resolve(tree, cwd, s)
    IN  IF ~r.ok \/ r.special \/ r.slash THEN IoErr(tree)
        ELSE IF Exists(tree, r.path)
             THEN IF KindOf(tree, r.path) = "file" THEN IoOk(tree) ELSE IoErr(tree)
             ELSE IoOk(tree \cup {Node(r.path, "file")})

\* std::fs::create_dir(name)
CreateDir(tree, cwd, s) ==
    LET r == Resolve(tree, cwd, s)
    IN  IF ~r.ok \/ r.special \/ Exists(tree, r.path) THEN IoErr(tree)
        ELSE IoOk(tree \cup {Node(r.path, "dir")})

\* The nodes at or below p.
Subtree(tree, p) == {n \in tree : IsPrefix(p, n.path)}

\* std::fs::rename(old, new), old a name in cwd.
FsRename(tree, cwd, old, s) ==
    LET r    == Resolve(tree, cwd, s)
        from == cwd \o <<old>>
        to   == r.path
        kind == KindOf(tree, from)
        moved == {Node(to \o SubSeq(n.path, Len(from) + 1, Len(n.path)), n.kind) :
                      n \in Subtree(tree, from)}
    IN  IF ~Exists(tree, from) \/ ~r.ok \/ r.special THEN IoErr(tree)
        ELSE IF r.slash /\ kind # "dir" THEN IoErr(tree)
        ELSE IF to = from THEN IoOk(tree)
        ELSE IF IsPrefix(from, to) THEN IoErr(tree)
        ELSE IF Exists(tree, to) /\ kind = "dir"
                  /\ (KindOf(tree, to) # "dir" \/ ReadDir(tree, to) # {})
             THEN IoErr(tree)
        ELSE IF Exists(tree, to) /\ kind # "dir" /\ KindOf(tree, to) = "dir"
             THEN IoErr(tree)
        ELSE IoOk(((tree \ Subtree(tree, from)) \ Subtree(tree, to)) \cup moved)

\* std::fs::remove_file(name), name a non-directory in cwd.
RemoveFile(tree, cwd, name) ==
    IoOk(tree \ {n \in tree : n.path = cwd \o <<name>>})

\* std::fs::remove_dir_all(name), name a directory in cwd.
RemoveDirAll(tree, cwd, name) ==
    IoOk(tree \ Subtree(tree, cwd \o <<name>>))

---------------------------------------------------------------------------
(* The session.                                                            *)

VARIABLES
    selection,        \* NFM.selection: index of the selected entry (u16)
    scroll,           \* NFM.scroll: index of the first row drawn (u16)
    entries,          \* NFM.entries: the listing cached by the last refresh
    actions,          \* NFM.actions: the queue of pending actions
    mode,             \* NFM.mode
    show_hidden,      \* NFM.show_hidden
    rename_buffer,    \* NFM.rename_buffer
    add_buffer,       \* NFM.add_buffer
    search_buffer,    \* NFM.search_buffer
    should_close,     \* NFM.should_close
    pc,               \* where run() is
    raw_mode,         \* the terminal is in raw mode on the alternate screen
    cursor,           \* column of the terminal cursor while it is shown
    height,           \* terminal::size().1
    tree,             \* the filesystem
    cwd,              \* the process's working directory
    wraps,            \* an overflow has wrapped: the build has no overflow checks
    io,               \* the filesystem call made by the last step
    picked,           \* the entry selected when Rename/Remove was entered
    events            \* number of input events read so far

vars == <<selection, scroll, entries, actions, mode, show_hidden,
          rename_buffer, add_buffer, search_buffer, should_close, pc,
          raw_mode, cursor, height, tree, cwd, wraps, io, picked, events>>

\* Most input events read in one run (a bound of the model).
MaxEvents == 6

\* The cursor is hidden: its column is not read before the next MoveTo.
NoCursor == 0

Modes == {"Normal", "Rename", "Remove", "Add", "Search", "Help"}

\* crossterm KeyCode values the model's user presses.
Key(code) == [code |-> code, ch |-> ""]
CharKey(c) == [code |-> "Char", ch |-> c]
NoKey == Key("None")

\* action.rs: Action
Act(type) == [type |-> type, key |-> NoKey]
Input(key) == [type |-> "Input", key |-> key]

\* The tree the session is started in, and the directory it is started from.
StartDir == <<<<"a">>>>
InitTree ==
    { Node(<<<<"a">>>>, "dir"),
      Node(<<<<"a">>, <<"B">>>>, "dir"),
      Node(<<<<"a">>, <<"a">>>>, "file"),
      Node(<<<<"a">>, <<".", "a">>>>, "file"),
      Node(<<<<"a">>, <<"a", "B">>>>, "other") }

---------------------------------------------------------------------------
(* fetch_entries_sorted and draw.                                          *)

\* The filter closure without to_lowercase: a case-sensitive match.
EntryMatchesCaseSensitive(n, hidden, search) ==
    LET file_name == FileName(n)
    IN  /\ Contains(file_name, search)
        /\ IF hidden THEN TRUE ELSE ~StartsWith(file_name, ".")

\* The filter closure of fetch_entries_sorted.
EntryMatches(n, hidden, search) ==
    LET file_name == ToLowercase(FileName(n))
    IN  /\ Contains(file_name, ToLowercase(search))
        /\ IF hidden THEN TRUE ELSE ~StartsWith(file_name, ".")

\* sort_by_key(|e| e.file_name()): names in a directory are distinct, so the
\* sorted order is the one obtained by repeatedly taking the least name.
RECURSIVE SortByFileName(_)
SortByFileName(S) ==
    IF S = {} THEN <<>>
    ELSE LET m == CHOOSE x \in S :
                      \A y \in S : y = x \/ BytesLess(FileName(x), FileName(y))
         IN  <<[name |-> FileName(m), kind |-> m.kind]>>
                 \o SortByFileName(S \ {m})

\* NFM::fetch_entries_sorted
FetchEntriesSorted(t, dir, hidden, search) ==
    SortByFileName({n \in ReadDir(t, dir) : EntryMatches(n, hidden, search)})

\* NFM::draw returns the listing it rendered.
Draw(t, dir, hidden, search) == FetchEntriesSorted(t, dir, hidden, search)

\* The indices draw() renders for a listing of len entries.
DrawnRows(len, scr, h) ==
    {index \in 0..(len - 1) : ~(index > h + scr - 4) /\ ~(scr > index)}

\* `entries.len() as u16`
LenU16(seq) == Len(seq) % U16Modulus

\* The selected entry, indexing from 0 as Vec::get does.
EntryAt(seq, idx) == seq[idx + 1]

---------------------------------------------------------------------------
(* Construction and the event loop.                                        *)

\* NFM::new, in a terminal of some height, built with or without checks.
Init ==
    /\ selection = 0
    /\ scroll = 0
    /\ entries = <<>>
    /\ actions = <<>>
    /\ mode = "Normal"
    /\ show_hidden = FALSE
    /\ rename_buffer = <<>>
    /\ add_buffer = <<>>
    /\ search_buffer = <<>>
    /\ should_close = FALSE
    /\ pc = "initialize"
    /\ raw_mode = FALSE
    /\ cursor = NoCursor
    /\ height \in MinHeight..MaxHeight
    /\ tree = InitTree
    /\ cwd = StartDir
    /\ wraps = FALSE
    /\ io = "none"
    /\ picked = <<>>
    /\ events = 0

\* NFM::initialize
Initialize ==
    /\ pc = "initialize"
    /\ raw_mode' = TRUE
    /\ actions' = Append(actions, Act("Redraw"))
    /\ pc' = "handle_actions"
    /\ io' = "none"
    /\ UNCHANGED <<selection, scroll, entries, mode, show_hidden,
                   rename_buffer, add_buffer, search_buffer, should_close,
                   cursor, height, tree, cwd, wraps, picked, events>>

\* NFM::handle_key_event: the actions pushed for a key in a mode.
KeyActions(m, key, ctrl) ==
    CASE m = "Normal" ->
            CASE key.code = "Esc" -> <<Act("Close")>>
              [] key.code = "Up" ->
                    IF ctrl THEN <<Act("ScrollUp")>> ELSE <<Act("MoveUp")>>
              [] key.code = "Down" ->
                    IF ctrl THEN <<Act("ScrollDown")>> ELSE <<Act("MoveDown")>>
              [] key.code = "Enter" -> <<Act("Open")>>
              [] key.code = "Backspace" -> <<Act("Back")>>
              [] key.code = "Home" -> <<Act("Home")>>
              [] key.code = "End" -> <<Act("End")>>
              [] key = CharKey("h") -> <<Act("ToggleHidden")>>
              [] key = CharKey("r") -> <<Act("Rename")>>
              [] key = CharKey("d") -> <<Act("Remove")>>
              [] key = CharKey("a") -> <<Act("Add")>>
              [] key = CharKey("/") -> <<Act("Search")>>
              [] key = CharKey("?") -> <<Act("ToggleHelp")>>
              [] OTHER -> <<>>
      [] m = "Rename" ->
            IF key.code = "Esc" THEN <<Act("Close")>> ELSE <<Input(key)>>
      [] m = "Remove" ->
            CASE key.code = "Esc" -> <<Act("Close")>>
              [] key.code = "Enter" -> <<Act("Remove")>>
              [] OTHER -> <<>>
      [] m = "Add" ->
            CASE key.code = "Esc" -> <<Act("Close")>>
              [] key.code = "Enter" -> <<Act("Add")>>
              [] OTHER -> <<Input(key)>>
      [] m = "Search" ->
            IF key.code = "Esc" THEN <<Act("Close")>> ELSE <<Input(key)>>
      [] m = "Help" ->
            IF key.code = "Esc" \/ key = CharKey("?")
            THEN <<Act("Close")>> ELSE <<>>

\* The keys the model's user presses: the named keys, the command letters,
\* and in a prompt only the characters of Chars.
NamedKeys ==
    {Key(c) : c \in {"Esc", "Up", "Down", "Enter", "Backspace", "Home", "End",
                     "Left", "Right", "Tab"}}
CommandKeys == {CharKey(c) : c \in {"h", "r", "d", "a", "/", "?"}}
PromptKeys == {CharKey(c) : c \in Chars}

PromptBuffer ==
    CASE mode = "Rename" -> rename_buffer
      [] mode = "Add" -> add_buffer
      [] mode = "Search" -> search_buffer
      [] OTHER -> <<>>

\* The model follows a session while its indices are small: not beyond a
\* wrap of selection or scroll around the end of u16.
InBounds ==
    selection <= MaxNodes /\ scroll <= MaxNodes /\ events < MaxEvents

\* The bounds of the model, as limits on what the user does.
KeyOffered(key, ctrl) ==
    /\ InBounds
    /\ key \in NamedKeys \cup (IF mode \in {"Rename", "Add", "Search"}
                               THEN PromptKeys ELSE CommandKeys)
    /\ ctrl => key.code \in {"Up", "Down"}
    /\ key.code = "Char" /\ mode \in {"Rename", "Add", "Search"}
           => Len(PromptBuffer) < MaxLen
    /\ key.code = "Down" /\ ctrl /\ mode = "Normal" => scroll < MaxScroll
    /\ key.code = "Enter" /\ mode = "Add" => Cardinality(tree) < MaxNodes

\* run(): after handle_event the loop condition is tested; handle_actions
\* on an empty queue does nothing, so the loop is back at handle_event.
AfterEvent(queue) ==
    IF should_close
    THEN pc' = "returned" /\ raw_mode' = FALSE
    ELSE /\ pc' = IF queue = <<>> THEN "handle_event" ELSE "handle_actions"
         /\ UNCHANGED raw_mode

\* NFM::handle_event, Event::Key
KeyEvent ==
    /\ pc = "handle_event"
    /\ \E key \in NamedKeys \cup CommandKeys \cup PromptKeys, ctrl \in BOOLEAN :
          /\ KeyOffered(key, ctrl)
          /\ actions' = actions \o KeyActions(mode, key, ctrl)
    /\ AfterEvent(actions')
    /\ events' = events + 1
    /\ io' = "none"
    /\ UNCHANGED <<selection, scroll, entries, mode, show_hidden,
                   rename_buffer, add_buffer, search_buffer, should_close,
                   cursor, height, tree, cwd, wraps, picked>>

\* The while loop of Event::Resize: selection is lowered one at a time
\* until selection - scroll <= rows - 4, so it ends at scroll + rows - 4.
ResizeSelection(sel, scr, h) ==
    IF SatSub(sel, scr) > h - 4 THEN scr + h - 4 ELSE sel

\* NFM::handle_event, Event::Resize: the terminal now has h rows.
ResizeEvent ==
    /\ pc = "handle_event"
    /\ InBounds
    /\ \E h \in MinHeight..MaxHeight :
          /\ height' = h
          /\ selection' = ResizeSelection(selection, scroll, h)
    /\ actions' = Append(actions, Act("Redraw"))
    /\ AfterEvent(actions')
    /\ events' = events + 1
    /\ io' = "none"
    /\ UNCHANGED <<scroll, entries, mode, show_hidden, rename_buffer,
                   add_buffer, search_buffer, should_close, cursor, tree, cwd,
                   wraps, picked>>

\* NFM::handle_event when poll() reports no event: only the loop test acts.
NoEvent ==
    /\ pc = "handle_event"
    /\ should_close
    /\ AfterEvent(actions)
    /\ io' = "none"
    /\ UNCHANGED <<selection, scroll, entries, actions, mode, show_hidden,
                   rename_buffer, add_buffer, search_buffer, should_close,
                   cursor, height, tree, cwd, wraps, picked, events>>

---------------------------------------------------------------------------
(* handle_actions: one action of the model per arm of the match.           *)

bufs == <<rename_buffer, add_buffer, search_buffer>>
term == <<raw_mode, height, events, wraps>>
size == <<raw_mode, height, events>>
fsys == <<tree, cwd>>

\* The arm for action type t in mode m is about to run.
Applying(m, t) ==
    /\ pc = "handle_actions"
    /\ actions # <<>>
    /\ mode = m
    /\ Head(actions).type = t

\* The Input arm for key code c in mode m is about to run.
ApplyingInput(m, c) == Applying(m, "Input") /\ Head(actions).key.code = c

\* The arm ends; the for loop goes on, and after the last action the queue
\* is cleared and run() goes on to handle_event.
Consume ==
    /\ actions' = Tail(actions)
    /\ pc' = IF Tail(actions) = <<>> THEN "handle_event" ELSE "handle_actions"

\* `break`: the for loop is left, the queue is cleared.
Break ==
    /\ actions' = <<>>
    /\ pc' = "handle_event"

\* The thread panics: run() never returns.
Panic ==
    /\ pc' = "panicked"
    /\ UNCHANGED <<selection, scroll, entries, actions, mode, show_hidden,
                   bufs, should_close, cursor, term, fsys, io, picked>>

\* `?` on an Err: handle_actions and run() return it at once.
ReturnErr == pc' = "returned_err" /\ UNCHANGED actions

\* The rows of the listing draw() shows: height - 3.
VisibleRows == height - ReservedRows

\* Action::Close in Normal
NormalClose ==
    /\ Applying("Normal", "Close")
    /\ should_close' = TRUE
    /\ Consume
    /\ io' = "none"
    /\ UNCHANGED <<selection, scroll, entries, mode, show_hidden, bufs,
                   cursor, term, fsys, picked>>

\* Action::Redraw in Normal
NormalRedraw ==
    /\ Applying("Normal", "Redraw")
    /\ entries' = Draw(tree, cwd, show_hidden, search_buffer)
    /\ Consume
    /\ io' = "none"
    /\ UNCHANGED <<selection, scroll, mode, show_hidden, bufs, should_close,
                   cursor, term, fsys, picked>>

\* An arm in which an integer operation overflows panics when the build
\* checks overflow and goes on with the wrapped value when it does not; a
\* build that has wrapped once wraps every time.
PanicsOn(overflow) == overflow /\ ~wraps /\ Panic
WrapsOn(overflow) == wraps' = (wraps \/ overflow)

\* Action::ScrollUp
NormalScrollUp ==
    /\ Applying("Normal", "ScrollUp")
    /\ LET scroll1  == SatSub(scroll, 1)
           pull     == WrapAdd(selection, scroll1) > height - 4
           overflow == \/ selection + scroll1 >= U16Modulus
                       \/ pull /\ selection = 0
       IN  \/ PanicsOn(overflow)
           \/ /\ WrapsOn(overflow)
              /\ scroll' = scroll1
              /\ selection' = IF pull THEN WrapSub(selection, 1) ELSE selection
              /\ Consume
              /\ io' = "none"
              /\ UNCHANGED <<entries, mode, show_hidden, bufs, should_close,
                             cursor, size, fsys, picked>>

\* Action::ScrollDown
NormalScrollDown ==
    /\ Applying("Normal", "ScrollDown")
    /\ LET scroll1  == WrapAdd(scroll, 1)
           push     == SatSub(selection, scroll1) < height - 3
           overflow == \/ scroll + 1 >= U16Modulus
                       \/ push /\ selection + 1 >= U16Modulus
                       \/ push /\ LenU16(entries) = 0
       IN  \/ PanicsOn(overflow)
           \/ /\ WrapsOn(overflow)
              /\ scroll' = scroll1
              /\ selection' =
                    IF push
                    THEN Min(WrapAdd(selection, 1), WrapSub(LenU16(entries), 1))
                    ELSE selection
              /\ Consume
              /\ io' = "none"
              /\ UNCHANGED <<entries, mode, show_hidden, bufs, should_close,
                             cursor, size, fsys, picked>>

\* Action::MoveUp
NormalMoveUp ==
    /\ Applying("Normal", "MoveUp")
    /\ scroll' = IF SatSub(selection, scroll) = 0 THEN SatSub(scroll, 1) ELSE scroll
    /\ selection' = SatSub(selection, 1)
    /\ Consume
    /\ io' = "none"
    /\ UNCHANGED <<entries, mode, show_hidden, bufs, should_close, cursor,
                   term, fsys, picked>>

\* MoveDown following one row late: > in place of >= in the scroll test.
NormalMoveDownLate ==
    /\ Applying("Normal", "MoveDown")
    /\ LET selection1 == Min(WrapAdd(selection, 1), SatSub(Len(entries), 1) % U16Modulus)
           follow     == SatSub(selection1, scroll) > height - 3
           overflow   == \/ selection + 1 >= U16Modulus
                         \/ follow /\ scroll + 1 >= U16Modulus
       IN  \/ PanicsOn(overflow)
           \/ /\ WrapsOn(overflow)
              /\ selection' = selection1
              /\ scroll' = IF follow THEN WrapAdd(scroll, 1) ELSE scroll
              /\ Consume
              /\ io' = "none"
              /\ UNCHANGED <<entries, mode, show_hidden, bufs, should_close,
                             cursor, size, fsys, picked>>

\* Action::MoveDown
NormalMoveDown ==
    /\ Applying("Normal", "MoveDown")
    /\ LET selection1 == Min(WrapAdd(selection, 1), SatSub(Len(entries), 1) % U16Modulus)
           follow     == SatSub(selection1, scroll) >= height - 3
           overflow   == \/ selection + 1 >= U16Modulus
                         \/ follow /\ scroll + 1 >= U16Modulus
       IN  \/ PanicsOn(overflow)
           \/ /\ WrapsOn(overflow)
              /\ selection' = selection1
              /\ scroll' = IF follow THEN WrapAdd(scroll, 1) ELSE scroll
              /\ Consume
              /\ io' = "none"
              /\ UNCHANGED <<entries, mode, show_hidden, bufs, should_close,
                             cursor, size, fsys, picked>>

\* Action::Home
NormalHome ==
    /\ Applying("Normal", "Home")
    /\ selection' = 0
    /\ scroll' = 0
    /\ Consume
    /\ io' = "none"
    /\ UNCHANGED <<entries, mode, show_hidden, bufs, should_close, cursor,
                   term, fsys, picked>>

\* The while loop of Action::End: scroll is raised one at a time while
\* selection - scroll >= rows, so it ends at selection - rows + 1.
EndScroll(sel, scr, rows) ==
    IF SatSub(sel, scr) >= rows THEN sel - rows + 1 ELSE scr

\* Action::End
NormalEnd ==
    /\ Applying("Normal", "End")
    /\ LET overflow == LenU16(entries) = 0
       IN  \/ PanicsOn(overflow)
           \/ /\ WrapsOn(overflow)
              /\ selection' = WrapSub(LenU16(entries), 1)
              /\ scroll' = EndScroll(selection', scroll, height - 3)
              /\ Consume
              /\ io' = "none"
              /\ UNCHANGED <<entries, mode, show_hidden, bufs, should_close,
                             cursor, size, fsys, picked>>

\* `self.selection.min(self.entries.len().saturating_sub(1) as u16)`
ClampSelection(sel, listing) == Min(sel, SatSub(Len(listing), 1) % U16Modulus)

\* Action::ToggleHidden
NormalToggleHidden ==
    /\ Applying("Normal", "ToggleHidden")
    /\ show_hidden' = ~show_hidden
    /\ scroll' = 0
    /\ entries' = Draw(tree, cwd, show_hidden', search_buffer)
    /\ selection' = ClampSelection(selection, entries')
    /\ Consume
    /\ io' = "none"
    /\ UNCHANGED <<mode, bufs, should_close, cursor, term, fsys, picked>>

\* Action::Rename in Normal: enter Rename mode on the selected entry.
\* The cursor row is selection - scroll + 2.
NormalRename ==
    /\ Applying("Normal", "Rename")
    /\ IF selection >= LenU16(entries)
       THEN /\ Break
            /\ io' = "none"
            /\ UNCHANGED <<selection, scroll, entries, mode, show_hidden, bufs,
                           should_close, cursor, term, fsys, picked>>
       ELSE \/ PanicsOn(selection < scroll)
            \/ /\ WrapsOn(selection < scroll)
               /\ mode' = "Rename"
               /\ rename_buffer' = EntryAt(entries, selection).name
               /\ cursor' = Len(EntryAt(entries, selection).name) + PromptColumn
               /\ picked' = EntryAt(entries, selection).name
               /\ Consume
               /\ io' = "none"
               /\ UNCHANGED <<selection, scroll, entries, show_hidden, add_buffer,
                              search_buffer, should_close, size, fsys>>

\* Remove in Normal without the guard on selection.
NormalRemoveUnguarded ==
    /\ Applying("Normal", "Remove")
    /\ \/ PanicsOn(selection < scroll)
       \/ /\ WrapsOn(selection < scroll)
          /\ mode' = "Remove"
          /\ picked' = IF selection < Len(entries)
                       THEN EntryAt(entries, selection).name ELSE <<>>
          /\ Consume
          /\ io' = "none"
          /\ UNCHANGED <<selection, scroll, entries, show_hidden, bufs,
                         should_close, cursor, size, fsys>>

\* Action::Remove in Normal: enter Remove mode on the selected entry.
\* The cursor row is selection - scroll + 2.
NormalRemove ==
    /\ Applying("Normal", "Remove")
    /\ IF selection >= LenU16(entries)
       THEN /\ Break
            /\ io' = "none"
            /\ UNCHANGED <<selection, scroll, entries, mode, show_hidden, bufs,
                           should_close, cursor, term, fsys, picked>>
       ELSE \/ PanicsOn(selection < scroll)
            \/ /\ WrapsOn(selection < scroll)
               /\ mode' = "Remove"
               /\ picked' = EntryAt(entries, selection).name
               /\ Consume
               /\ io' = "none"
               /\ UNCHANGED <<selection, scroll, entries, show_hidden, bufs,
                              should_close, cursor, size, fsys>>

\* Action::Add in Normal: enter Add mode.
NormalAdd ==
    /\ Applying("Normal", "Add")
    /\ mode' = "Add"
    /\ cursor' = PromptColumn
    /\ Consume
    /\ io' = "none"
    /\ UNCHANGED <<selection, scroll, entries, show_hidden, bufs, should_close,
                   term, fsys, picked>>

\* Open without the clamp of selection to the new listing.
NormalOpenUnclamped ==
    /\ Applying("Normal", "Open")
    /\ IF selection >= LenU16(entries)
       THEN /\ Break
            /\ io' = "none"
            /\ UNCHANGED <<selection, scroll, entries, show_hidden, bufs,
                           should_close, cursor, fsys>>
       ELSE LET target == cwd \o <<EntryAt(entries, selection).name>>
            IN  \E spawned \in BOOLEAN :
                  /\ IsDir(tree, target) => spawned
                  /\ io' = IF IsDir(tree, target) THEN "set_current_dir" ELSE "spawn"
                  /\ IF ~spawned
                     THEN /\ ReturnErr
                          /\ UNCHANGED <<selection, scroll, entries, show_hidden,
                                         bufs, should_close, cursor, fsys>>
                     ELSE /\ cwd' = IF IsDir(tree, target) THEN target ELSE cwd
                          /\ cursor' = IF IsDir(tree, target) THEN cursor ELSE NoCursor
                          /\ search_buffer' = <<>>
                          /\ scroll' = 0
                          /\ entries' = Draw(tree, cwd', show_hidden, search_buffer')
                          /\ selection' = selection
                          /\ Consume
                          /\ UNCHANGED <<show_hidden, rename_buffer, add_buffer,
                                         should_close, tree>>
    /\ UNCHANGED <<mode, term, picked>>

\* Action::Open: enter the selected directory, or edit the selected file.
NormalOpen ==
    /\ Applying("Normal", "Open")
    /\ IF selection >= LenU16(entries)
       THEN /\ Break
            /\ io' = "none"
            /\ UNCHANGED <<selection, scroll, entries, show_hidden, bufs,
                           should_close, cursor, fsys>>
       ELSE LET target == cwd \o <<EntryAt(entries, selection).name>>
            IN  \E spawned \in BOOLEAN :
                  /\ IsDir(tree, target) => spawned
                  /\ io' = IF IsDir(tree, target) THEN "set_current_dir" ELSE "spawn"
                  /\ IF ~spawned
                     THEN /\ ReturnErr
                          /\ UNCHANGED <<selection, scroll, entries, show_hidden,
                                         bufs, should_close, cursor, fsys>>
                     ELSE /\ cwd' = IF IsDir(tree, target) THEN target ELSE cwd
                          /\ cursor' = IF IsDir(tree, target) THEN cursor ELSE NoCursor
                          /\ search_buffer' = <<>>
                          /\ scroll' = 0
                          /\ entries' = Draw(tree, cwd', show_hidden, search_buffer')
                          /\ selection' = ClampSelection(selection, entries')
                          /\ Consume
                          /\ UNCHANGED <<show_hidden, rename_buffer, add_buffer,
                                         should_close, tree>>
    /\ UNCHANGED <<mode, term, picked>>

\* Back drawing the parent directory without keeping the listing drawn.
NormalBackStale ==
    /\ Applying("Normal", "Back")
    /\ cwd' = Parent(cwd)
    /\ scroll' = 0
    /\ entries' = entries
    /\ selection' = ClampSelection(selection, entries')
    /\ Consume
    /\ io' = "set_current_dir"
    /\ UNCHANGED <<mode, show_hidden, bufs, should_close, cursor, term, tree,
                   picked>>

\* Action::Back: go to the parent directory.
NormalBack ==
    /\ Applying("Normal", "Back")
    /\ cwd' = Parent(cwd)
    /\ scroll' = 0
    /\ entries' = Draw(tree, cwd', show_hidden, search_buffer)
    /\ selection' = ClampSelection(selection, entries')
    /\ Consume
    /\ io' = "set_current_dir"
    /\ UNCHANGED <<mode, show_hidden, bufs, should_close, cursor, term, tree,
                   picked>>

\* Action::Search in Normal: enter Search mode with an empty filter.
NormalSearch ==
    /\ Applying("Normal", "Search")
    /\ mode' = "Search"
    /\ search_buffer' = <<>>
    /\ cursor' = PromptColumn
    /\ Consume
    /\ io' = "none"
    /\ UNCHANGED <<selection, scroll, entries, show_hidden, rename_buffer,
                   add_buffer, should_close, term, fsys, picked>>

\* Action::ToggleHelp in Normal
NormalToggleHelp ==
    /\ Applying("Normal", "ToggleHelp")
    /\ mode' = "Help"
    /\ Consume
    /\ io' = "none"
    /\ UNCHANGED <<selection, scroll, entries, show_hidden, bufs, should_close,
                   cursor, term, fsys, picked>>

---------------------------------------------------------------------------
(* The prompts: the logical cursor is the terminal column minus 4.         *)

\* NFM::move_left: the column afterwards.
MoveLeft(col) == IF col > PromptColumn THEN col - 1 ELSE col

\* move_right without its test against the buffer's length.
MoveRightUnchecked(col, buffer) == col + 1

\* NFM::move_right: the column afterwards.
MoveRight(col, buffer) ==
    IF col < Len(buffer) + PromptColumn THEN col + 1 ELSE col

\* The Backspace arm of a prompt on a non-empty buffer: move_left, then
\* String::remove at the cursor.  ok is FALSE when remove panics.
Backspace(buffer, col) ==
    LET col1 == MoveLeft(col)
        idx  == col1 - PromptColumn
    IN  IF idx < 0 \/ idx >= Len(buffer)
        THEN [ok |-> FALSE, buffer |-> buffer, col |-> col1]
        ELSE [ok |-> TRUE, buffer |-> StrRemove(buffer, idx), col |-> col1]

\* The Char arm pushing the character at the end of the buffer.
TypeCharAtEnd(buffer, col, ch) ==
    LET idx == col - PromptColumn
    IN  IF idx < 0 \/ idx > Len(buffer)
        THEN [ok |-> FALSE, buffer |-> buffer, col |-> col]
        ELSE LET buffer1 == Append(buffer, ch)
             IN  [ok |-> TRUE, buffer |-> buffer1, col |-> MoveRight(col, buffer1)]

\* The Char arm of a prompt: String::insert at the cursor, then move_right.
\* ok is FALSE when insert panics.
TypeChar(buffer, col, ch) ==
    LET idx == col - PromptColumn
    IN  IF idx < 0 \/ idx > Len(buffer)
        THEN [ok |-> FALSE, buffer |-> buffer, col |-> col]
        ELSE LET buffer1 == StrInsert(buffer, idx, ch)
             IN  [ok |-> TRUE, buffer |-> buffer1, col |-> MoveRight(col, buffer1)]

\* Keys a prompt's Input arm ignores (`_ => {}`).
IgnoredInput(m) ==
    /\ Applying(m, "Input")
    /\ Head(actions).key.code \notin {"Backspace", "Enter", "Left", "Right", "Char"}

---------------------------------------------------------------------------
(* Rename mode.                                                            *)

\* Close in Rename leading to the Remove confirmation instead of Normal.
RenameCloseIntoRemove ==
    /\ Applying("Rename", "Close")
    /\ mode' = "Remove"
    /\ cursor' = NoCursor
    /\ picked' = <<>>
    /\ Consume
    /\ io' = "none"
    /\ UNCHANGED <<selection, scroll, entries, show_hidden, bufs, should_close,
                   term, fsys>>

\* Action::Close in Rename
RenameClose ==
    /\ Applying("Rename", "Close")
    /\ mode' = "Normal"
    /\ cursor' = NoCursor
    /\ picked' = <<>>
    /\ Consume
    /\ io' = "none"
    /\ UNCHANGED <<selection, scroll, entries, show_hidden, bufs, should_close,
                   term, fsys>>

\* Input(Backspace) in Rename
RenameBackspace ==
    /\ ApplyingInput("Rename", "Backspace")
    /\ IF rename_buffer = <<>>
       THEN /\ Break
            /\ io' = "none"
            /\ UNCHANGED <<selection, scroll, entries, mode, show_hidden, bufs,
                           should_close, cursor, term, fsys, picked>>
       ELSE LET r == Backspace(rename_buffer, cursor)
            IN  IF ~r.ok THEN Panic
                ELSE /\ rename_buffer' = r.buffer
                     /\ cursor' = r.col
                     /\ Consume
                     /\ io' = "none"
                     /\ UNCHANGED <<selection, scroll, entries, mode, show_hidden,
                                    add_buffer, search_buffer, should_close, term,
                                    fsys, picked>>

\* Input(Enter) in Rename: commit.
RenameEnter ==
    /\ ApplyingInput("Rename", "Enter")
    /\ IF selection >= Len(entries) THEN Panic
       ELSE LET old_name == EntryAt(entries, selection).name
                r == IF old_name # rename_buffer
                     THEN FsRename(tree, cwd, old_name, rename_buffer)
                     ELSE IoOk(tree)
            IN  /\ mode' = "Normal"
                /\ cursor' = NoCursor
                /\ picked' = <<>>
                /\ io' = IF old_name # rename_buffer THEN "rename" ELSE "none"
                /\ tree' = r.tree
                /\ IF r.ok
                   THEN /\ entries' = Draw(tree', cwd, show_hidden, search_buffer)
                        /\ Consume
                   ELSE /\ ReturnErr
                        /\ UNCHANGED entries
                /\ UNCHANGED <<selection, scroll, show_hidden, bufs,
                               should_close, term, cwd>>

\* Input(Left) in Rename
RenameLeft ==
    /\ ApplyingInput("Rename", "Left")
    /\ cursor' = MoveLeft(cursor)
    /\ Consume
    /\ io' = "none"
    /\ UNCHANGED <<selection, scroll, entries, mode, show_hidden, bufs,
                   should_close, term, fsys, picked>>

\* Input(Right) in Rename
RenameRight ==
    /\ ApplyingInput("Rename", "Right")
    /\ cursor' = MoveRight(cursor, rename_buffer)
    /\ Consume
    /\ io' = "none"
    /\ UNCHANGED <<selection, scroll, entries, mode, show_hidden, bufs,
                   should_close, term, fsys, picked>>

\* Input(Char(c)) in Rename
RenameChar ==
    /\ ApplyingInput("Rename", "Char")
    /\ LET r == TypeChar(rename_buffer, cursor, Head(actions).key.ch)
       IN  IF ~r.ok THEN Panic
           ELSE /\ rename_buffer' = r.buffer
                /\ cursor' = r.col
                /\ Consume
                /\ io' = "none"
                /\ UNCHANGED <<selection, scroll, entries, mode, show_hidden,
                               add_buffer, search_buffer, should_close, term,
                               fsys, picked>>

\* Any other Input in Rename
RenameInputIgnored ==
    /\ mode = "Rename"
    /\ IgnoredInput("Rename")
    /\ Consume
    /\ io' = "none"
    /\ UNCHANGED <<selection, scroll, entries, mode, show_hidden, bufs,
                   should_close, cursor, term, fsys, picked>>

\* Any other action in Rename (a Redraw queued by a Resize)
RenameIgnored ==
    /\ pc = "handle_actions" /\ actions # <<>> /\ mode = "Rename"
    /\ Head(actions).type \notin {"Close", "Input"}
    /\ Consume
    /\ io' = "none"
    /\ UNCHANGED <<selection, scroll, entries, mode, show_hidden, bufs,
                   should_close, cursor, term, fsys, picked>>

---------------------------------------------------------------------------
(* Remove mode.                                                            *)

\* Action::Close in Remove
RemoveClose ==
    /\ Applying("Remove", "Close")
    /\ mode' = "Normal"
    /\ picked' = <<>>
    /\ Consume
    /\ io' = "none"
    /\ UNCHANGED <<selection, scroll, entries, show_hidden, bufs, should_close,
                   cursor, term, fsys>>

\* Action::Remove in Remove: confirm.
RemoveConfirm ==
    /\ Applying("Remove", "Remove")
    /\ IF selection >= Len(entries) THEN Panic
       ELSE LET entry == EntryAt(entries, selection)
                r == IF entry.kind = "file"
                     THEN RemoveFile(tree, cwd, entry.name)
                     ELSE IF entry.kind = "dir"
                     THEN RemoveDirAll(tree, cwd, entry.name)
                     ELSE IoOk(tree)
            IN  /\ mode' = "Normal"
                /\ picked' = <<>>
                /\ io' = IF entry.kind = "file" THEN "remove_file"
                         ELSE IF entry.kind = "dir" THEN "remove_dir_all"
                         ELSE "none"
                /\ tree' = r.tree
                /\ entries' = Draw(tree', cwd, show_hidden, search_buffer)
                /\ selection' = ClampSelection(selection, entries')
                /\ Consume
                /\ UNCHANGED <<scroll, show_hidden, bufs, should_close, cursor,
                               term, cwd>>

\* Any other action in Remove (a Redraw queued by a Resize)
RemoveIgnored ==
    /\ pc = "handle_actions" /\ actions # <<>> /\ mode = "Remove"
    /\ Head(actions).type \notin {"Close", "Remove"}
    /\ Consume
    /\ io' = "none"
    /\ UNCHANGED <<selection, scroll, entries, mode, show_hidden, bufs,
                   should_close, cursor, term, fsys, picked>>

---------------------------------------------------------------------------
(* Add mode.  Its Input(Enter) arm is dead code: handle_key_event maps     *)
(* Enter in Add mode to Action::Add.                                       *)

\* Close in Add treated as Close in Normal: it also ends the session.
AddCloseQuits ==
    /\ Applying("Add", "Close")
    /\ mode' = "Normal"
    /\ should_close' = TRUE
    /\ cursor' = NoCursor
    /\ add_buffer' = <<>>
    /\ Consume
    /\ io' = "none"
    /\ UNCHANGED <<selection, scroll, entries, show_hidden, rename_buffer,
                   search_buffer, term, fsys, picked>>

\* Action::Close in Add
AddClose ==
    /\ Applying("Add", "Close")
    /\ mode' = "Normal"
    /\ cursor' = NoCursor
    /\ add_buffer' = <<>>
    /\ Consume
    /\ io' = "none"
    /\ UNCHANGED <<selection, scroll, entries, show_hidden, rename_buffer,
                   search_buffer, should_close, term, fsys, picked>>

\* Action::Add in Add: commit.
AddCommit ==
    /\ Applying("Add", "Add")
    /\ LET r == IF EndsWith(add_buffer, "/")
                THEN CreateDir(tree, cwd, add_buffer)
                ELSE FileCreate(tree, cwd, add_buffer)
       IN  /\ mode' = "Normal"
           /\ cursor' = NoCursor
           /\ io' = IF EndsWith(add_buffer, "/") THEN "create_dir" ELSE "file_create"
           /\ tree' = r.tree
           /\ IF r.ok
              THEN /\ add_buffer' = <<>>
                   /\ selection' = ClampSelection(selection, entries)
                   /\ entries' = Draw(tree', cwd, show_hidden, search_buffer)
                   /\ Consume
              ELSE /\ ReturnErr
                   /\ UNCHANGED <<add_buffer, selection, entries>>
           /\ UNCHANGED <<scroll, show_hidden, rename_buffer, search_buffer,
                          should_close, term, cwd, picked>>

\* Input(Backspace) in Add
AddBackspace ==
    /\ ApplyingInput("Add", "Backspace")
    /\ IF add_buffer = <<>>
       THEN /\ Break
            /\ io' = "none"
            /\ UNCHANGED <<selection, scroll, entries, mode, show_hidden, bufs,
                           should_close, cursor, term, fsys, picked>>
       ELSE LET r == Backspace(add_buffer, cursor)
            IN  IF ~r.ok THEN Panic
                ELSE /\ add_buffer' = r.buffer
                     /\ cursor' = r.col
                     /\ Consume
                     /\ io' = "none"
                     /\ UNCHANGED <<selection, scroll, entries, mode, show_hidden,
                                    rename_buffer, search_buffer, should_close,
                                    term, fsys, picked>>

\* Input(Left) in Add
AddLeft ==
    /\ ApplyingInput("Add", "Left")
    /\ cursor' = MoveLeft(cursor)
    /\ Consume
    /\ io' = "none"
    /\ UNCHANGED <<selection, scroll, entries, mode, show_hidden, bufs,
                   should_close, term, fsys, picked>>

\* Input(Right) in Add
AddRight ==
    /\ ApplyingInput("Add", "Right")
    /\ cursor' = MoveRight(cursor, add_buffer)
    /\ Consume
    /\ io' = "none"
    /\ UNCHANGED <<selection, scroll, entries, mode, show_hidden, bufs,
                   should_close, term, fsys, picked>>

\* Input(Char(c)) in Add
AddChar ==
    /\ ApplyingInput("Add", "Char")
    /\ LET r == TypeChar(add_buffer, cursor, Head(actions).key.ch)
       IN  IF ~r.ok THEN Panic
           ELSE /\ add_buffer' = r.buffer
                /\ cursor' = r.col
                /\ Consume
                /\ io' = "none"
                /\ UNCHANGED <<selection, scroll, entries, mode, show_hidden,
                               rename_buffer, search_buffer, should_close, term,
                               fsys, picked>>

\* Any other Input in Add
AddInputIgnored ==
    /\ mode = "Add"
    /\ IgnoredInput("Add")
    /\ Consume
    /\ io' = "none"
    /\ UNCHANGED <<selection, scroll, entries, mode, show_hidden, bufs,
                   should_close, cursor, term, fsys, picked>>

\* Any other action in Add (a Redraw queued by a Resize)
AddIgnored ==
    /\ pc = "handle_actions" /\ actions # <<>> /\ mode = "Add"
    /\ Head(actions).type \notin {"Close", "Add", "Input"}
    /\ Consume
    /\ io' = "none"
    /\ UNCHANGED <<selection, scroll, entries, mode, show_hidden, bufs,
                   should_close, cursor, term, fsys, picked>>

---------------------------------------------------------------------------
(* Search mode: every arm that does not `break` is followed by the refresh *)
(* at the end of the Mode::Search block.                                   *)

\* The refresh querying with the filter as it was before the key.
SearchRefreshStale ==
    /\ scroll' = 0
    /\ entries' = Draw(tree, cwd, show_hidden, search_buffer)
    /\ selection' = ClampSelection(selection, entries')

\* The tail of the Mode::Search block: scroll = 0, refresh, clamp, refresh.
SearchRefresh ==
    /\ scroll' = 0
    /\ entries' = Draw(tree, cwd, show_hidden, search_buffer')
    /\ selection' = ClampSelection(selection, entries')

\* Action::Close in Search
SearchClose ==
    /\ Applying("Search", "Close")
    /\ mode' = "Normal"
    /\ cursor' = NoCursor
    /\ search_buffer' = <<>>
    /\ SearchRefresh
    /\ Consume
    /\ io' = "none"
    /\ UNCHANGED <<show_hidden, rename_buffer, add_buffer, should_close, term,
                   fsys, picked>>

\* Input(Backspace) in Search
SearchBackspace ==
    /\ ApplyingInput("Search", "Backspace")
    /\ IF search_buffer = <<>>
       THEN /\ Break
            /\ io' = "none"
            /\ UNCHANGED <<selection, scroll, entries, mode, show_hidden, bufs,
                           should_close, cursor, term, fsys, picked>>
       ELSE LET r == Backspace(search_buffer, cursor)
            IN  IF ~r.ok THEN Panic
                ELSE /\ search_buffer' = r.buffer
                     /\ cursor' = r.col
                     /\ SearchRefresh
                     /\ Consume
                     /\ io' = "none"
                     /\ UNCHANGED <<mode, show_hidden, rename_buffer, add_buffer,
                                    should_close, term, fsys, picked>>

\* Input(Enter) in Search: keep the filter, back to Normal.
SearchEnter ==
    /\ ApplyingInput("Search", "Enter")
    /\ mode' = "Normal"
    /\ cursor' = NoCursor
    /\ UNCHANGED search_buffer
    /\ SearchRefresh
    /\ Consume
    /\ io' = "none"
    /\ UNCHANGED <<show_hidden, rename_buffer, add_buffer, should_close, term,
                   fsys, picked>>

\* Input(Left) in Search
SearchLeft ==
    /\ ApplyingInput("Search", "Left")
    /\ cursor' = MoveLeft(cursor)
    /\ UNCHANGED search_buffer
    /\ SearchRefresh
    /\ Consume
    /\ io' = "none"
    /\ UNCHANGED <<mode, show_hidden, rename_buffer, add_buffer, should_close,
                   term, fsys, picked>>

\* Input(Right) in Search
SearchRight ==
    /\ ApplyingInput("Search", "Right")
    /\ cursor' = MoveRight(cursor, search_buffer)
    /\ UNCHANGED search_buffer
    /\ SearchRefresh
    /\ Consume
    /\ io' = "none"
    /\ UNCHANGED <<mode, show_hidden, rename_buffer, add_buffer, should_close,
                   term, fsys, picked>>

\* Input(Char(c)) in Search
SearchChar ==
    /\ ApplyingInput("Search", "Char")
    /\ LET r == TypeChar(search_buffer, cursor, Head(actions).key.ch)
       IN  IF ~r.ok THEN Panic
           ELSE /\ search_buffer' = r.buffer
                /\ cursor' = r.col
                /\ SearchRefresh
                /\ Consume
                /\ io' = "none"
                /\ UNCHANGED <<mode, show_hidden, rename_buffer, add_buffer,
                               should_close, term, fsys, picked>>

\* Any other Input in Search
SearchInputIgnored ==
    /\ mode = "Search"
    /\ IgnoredInput("Search")
    /\ UNCHANGED search_buffer
    /\ SearchRefresh
    /\ Consume
    /\ io' = "none"
    /\ UNCHANGED <<mode, show_hidden, rename_buffer, add_buffer, should_close,
                   cursor, term, fsys, picked>>

\* Any other action in Search (a Redraw queued by a Resize)
SearchIgnored ==
    /\ pc = "handle_actions" /\ actions # <<>> /\ mode = "Search"
    /\ Head(actions).type \notin {"Close", "Input"}
    /\ UNCHANGED search_buffer
    /\ SearchRefresh
    /\ Consume
    /\ io' = "none"
    /\ UNCHANGED <<mode, show_hidden, rename_buffer, add_buffer, should_close,
                   cursor, term, fsys, picked>>

---------------------------------------------------------------------------
(* Help mode.                                                              *)

\* Action::Close in Help
HelpClose ==
    /\ Applying("Help", "Close")
    /\ mode' = "Normal"
    /\ Consume
    /\ io' = "none"
    /\ UNCHANGED <<selection, scroll, entries, show_hidden, bufs, should_close,
                   cursor, term, fsys, picked>>

\* Any other action in Help (a Redraw queued by a Resize)
HelpIgnored ==
    /\ pc = "handle_actions" /\ actions # <<>> /\ mode = "Help"
    /\ Head(actions).type # "Close"
    /\ Consume
    /\ io' = "none"
    /\ UNCHANGED <<selection, scroll, entries, mode, show_hidden, bufs,
                   should_close, cursor, term, fsys, picked>>

---------------------------------------------------------------------------
(* The session.                                                            *)

Next ==
    \/ Initialize
    \/ KeyEvent
    \/ ResizeEvent
    \/ NoEvent
    \/ NormalClose
    \/ NormalRedraw
    \/ NormalScrollUp
    \/ NormalScrollDown
    \/ NormalMoveUp
    \/ NormalMoveDown
    \/ NormalHome
    \/ NormalEnd
    \/ NormalToggleHidden
    \/ NormalRename
    \/ NormalRemove
    \/ NormalAdd
    \/ NormalOpen
    \/ NormalBack
    \/ NormalSearch
    \/ NormalToggleHelp
    \/ RenameClose
    \/ RenameBackspace
    \/ RenameEnter
    \/ RenameLeft
    \/ RenameRight
    \/ RenameChar
    \/ RenameInputIgnored
    \/ RenameIgnored
    \/ RemoveClose
    \/ RemoveConfirm
    \/ RemoveIgnored
    \/ AddClose
    \/ AddCommit
    \/ AddBackspace
    \/ AddLeft
    \/ AddRight
    \/ AddChar
    \/ AddInputIgnored
    \/ AddIgnored
    \/ SearchClose
    \/ SearchBackspace
    \/ SearchEnter
    \/ SearchLeft
    \/ SearchRight
    \/ SearchChar
    \/ SearchInputIgnored
    \/ SearchIgnored
    \/ HelpClose
    \/ HelpIgnored

Spec == Init /\ [][Next]_vars

---------------------------------------------------------------------------
(* The snapshot query on its own: the inputs are drawn from bounded sets   *)
(* and the one action applies fetch_entries_sorted to them.                *)

\* Names a queried directory may hold, and the filters it is queried with.
QueryNames ==
    {<<"a">>, <<"b">>, <<"B">>, <<".", "a">>, <<".", "B">>, <<"a", "B">>, <<"B", "a">>}
QueryChars == {"a", "b", "B", "."}
StringsUpTo(n) == UNION {[1..k -> QueryChars] : k \in 0..n}

InitQuery ==
    /\ selection = 0
    /\ scroll = 0
    /\ entries = <<>>
    /\ actions = <<>>
    /\ mode = "Normal"
    /\ show_hidden \in BOOLEAN
    /\ rename_buffer = <<>>
    /\ add_buffer = <<>>
    /\ search_buffer \in StringsUpTo(MaxLen)
    /\ should_close = FALSE
    /\ pc = "query"
    /\ raw_mode = FALSE
    /\ cursor = NoCursor
    /\ height = MinHeight
    /\ \E names \in SUBSET QueryNames :
          tree = {Node(<<n>>, IF n = <<"B">> THEN "dir" ELSE "file") : n \in names}
    /\ cwd = <<>>
    /\ wraps = FALSE
    /\ io = "none"
    /\ picked = <<>>
    /\ events = 0

\* One call of fetch_entries_sorted.
Query ==
    /\ pc = "query"
    /\ entries' = FetchEntriesSorted(tree, cwd, show_hidden, search_buffer)
    /\ pc' = "queried"
    /\ UNCHANGED <<selection, scroll, actions, mode, show_hidden, bufs,
                   should_close, cursor, term, fsys, io, picked>>

SpecQuery == InitQuery /\ [][Query]_vars

---------------------------------------------------------------------------
(* MoveDown on its own: the session has drawn a directory taken from a     *)
(* bounded set, selection and scroll are 0, and the user only presses Down.*)

InitFollow ==
    /\ selection = 0
    /\ scroll = 0
    /\ actions = <<>>
    /\ mode = "Normal"
    /\ show_hidden \in BOOLEAN
    /\ rename_buffer = <<>>
    /\ add_buffer = <<>>
    /\ search_buffer = <<>>
    /\ should_close = FALSE
    /\ pc = "handle_event"
    /\ raw_mode = TRUE
    /\ cursor = NoCursor
    /\ height \in MinHeight..MaxHeight
    /\ \E names \in SUBSET QueryNames :
          tree = {Node(<<n>>, IF n = <<"B">> THEN "dir" ELSE "file") : n \in names}
    /\ cwd = <<>>
    /\ entries = FetchEntriesSorted(tree, cwd, show_hidden, search_buffer)
    /\ wraps = FALSE
    /\ io = "none"
    /\ picked = <<>>
    /\ events = 0

\* NFM::handle_event, Event::Key with KeyCode::Down and no modifier.
DownKeyEvent ==
    /\ pc = "handle_event"
    /\ KeyOffered(Key("Down"), FALSE)
    /\ actions' = actions \o KeyActions(mode, Key("Down"), FALSE)
    /\ AfterEvent(actions')
    /\ events' = events + 1
    /\ io' = "none"
    /\ UNCHANGED <<selection, scroll, entries, mode, show_hidden,
                   rename_buffer, add_buffer, search_buffer, should_close,
                   cursor, height, tree, cwd, wraps, picked>>

SpecFollow == InitFollow /\ [][DownKeyEvent \/ NormalMoveDown]_vars

---------------------------------------------------------------------------
(* Resize on its own: the session shows a directory taken from a bounded   *)
(* set with the selection inside the window, and the terminal is resized   *)
(* to any number of rows, also fewer than four.                            *)

InitResize ==
    /\ actions = <<>>
    /\ mode = "Normal"
    /\ show_hidden \in BOOLEAN
    /\ rename_buffer = <<>>
    /\ add_buffer = <<>>
    /\ search_buffer = <<>>
    /\ should_close = FALSE
    /\ pc = "handle_event"
    /\ raw_mode = TRUE
    /\ cursor = NoCursor
    /\ height \in MinHeight..MaxHeight
    /\ \E names \in SUBSET QueryNames :
          tree = {Node(<<n>>, IF n = <<"B">> THEN "dir" ELSE "file") : n \in names}
    /\ cwd = <<>>
    /\ entries = FetchEntriesSorted(tree, cwd, show_hidden, search_buffer)
    /\ entries # <<>>
    /\ selection \in 0..(Len(entries) - 1)
    /\ scroll \in 0..selection
    /\ selection < scroll + VisibleRows
    /\ wraps = FALSE
    /\ io = "none"
    /\ picked = <<>>
    /\ events = 0

\* The Resize loop stopping one row late: rows - 3 in place of rows - 4.
ReclampLate(sel, scr, limit) ==
    IF SatSub(sel, scr) > limit + 1 THEN scr + limit + 1 ELSE sel

\* The while loop of Event::Resize against the (possibly wrapped) value of
\* rows - 4: selection is lowered one at a time until selection - scroll
\* is no more than it.
Reclamp(sel, scr, limit) ==
    IF SatSub(sel, scr) > limit THEN scr + limit ELSE sel

\* NFM::handle_event, Event::Resize, for any number of rows h >= 1:
\* terminal::size()?.1 - 4 overflows when h < 4.
ResizeAnyHeight ==
    /\ pc = "handle_event"
    /\ InBounds
    /\ \E h \in 1..MaxHeight :
          LET overflow == h < 4
              limit    == WrapSub(h, 4)
          IN  \/ PanicsOn(overflow)
              \/ /\ WrapsOn(overflow)
                 /\ height' = h
                 /\ selection' = Reclamp(selection, scroll, limit)
                 /\ actions' = Append(actions, Act("Redraw"))
                 /\ AfterEvent(actions')
                 /\ events' = events + 1
                 /\ io' = "none"
                 /\ UNCHANGED <<scroll, entries, mode, show_hidden,
                                rename_buffer, add_buffer, search_buffer,
                                should_close, cursor, tree, cwd, picked>>

SpecResize == InitResize /\ [][ResizeAnyHeight]_vars

---------------------------------------------------------------------------
(* The two while loops one iteration at a time.  selection and scroll are  *)
(* any u16 values up to a bound, terminal::size() is read again for every  *)
(* test of the condition and answers any number of rows from four up, and  *)
(* events counts the iterations of the loop body.                          *)

InitLoops ==
    /\ actions = <<>>
    /\ mode = "Normal"
    /\ show_hidden = FALSE
    /\ rename_buffer = <<>>
    /\ add_buffer = <<>>
    /\ search_buffer = <<>>
    /\ should_close = FALSE
    /\ pc \in {"end_loop", "resize_loop"}
    /\ raw_mode = TRUE
    /\ cursor = NoCursor
    /\ height \in MinHeight..MaxHeight
    /\ tree = InitTree
    /\ cwd = StartDir
    /\ entries = FetchEntriesSorted(tree, cwd, show_hidden, search_buffer)
    /\ selection \in 0..MaxNodes
    /\ scroll \in 0..MaxScroll
    /\ wraps = FALSE
    /\ io = "none"
    /\ picked = <<>>
    /\ events = 0

\* The End loop testing against rows - 4 in place of rows - 3.
EndLoopConditionLate(sel, scr, h) == SatSub(sel, scr) >= h - 4

\* Action::End, the condition of the while loop.
EndLoopCondition(sel, scr, h) == SatSub(sel, scr) >= h - 3

\* Event::Resize, the condition of the while loop.
ResizeLoopCondition(sel, scr, h) == SatSub(sel, scr) > h - 4

loopfixed == <<entries, actions, mode, show_hidden, bufs, should_close,
               raw_mode, cursor, fsys, wraps, io, picked>>

\* Action::End, one iteration: the condition holds and scroll += 1.
EndLoopStep ==
    /\ pc = "end_loop"
    /\ \E h \in MinHeight..MaxHeight :
          /\ height' = h
          /\ EndLoopCondition(selection, scroll, h)
    /\ scroll' = scroll + 1
    /\ events' = events + 1
    /\ UNCHANGED <<pc, selection, loopfixed>>

\* Action::End, the condition fails: the loop is left for self.draw().
EndLoopExit ==
    /\ pc = "end_loop"
    /\ \E h \in MinHeight..MaxHeight :
          /\ height' = h
          /\ ~EndLoopCondition(selection, scroll, h)
    /\ pc' = "end_done"
    /\ UNCHANGED <<selection, scroll, events, loopfixed>>

\* Event::Resize, one iteration: the condition holds and
\* selection = selection.saturating_sub(1).
ResizeLoopStep ==
    /\ pc = "resize_loop"
    /\ \E h \in MinHeight..MaxHeight :
          /\ height' = h
          /\ ResizeLoopCondition(selection, scroll, h)
    /\ selection' = SatSub(selection, 1)
    /\ events' = events + 1
    /\ UNCHANGED <<pc, scroll, loopfixed>>

\* Event::Resize, the condition fails: the loop is left for the push of
\* Action::Redraw.
ResizeLoopExit ==
    /\ pc = "resize_loop"
    /\ \E h \in MinHeight..MaxHeight :
          /\ height' = h
          /\ ~ResizeLoopCondition(selection, scroll, h)
    /\ pc' = "resize_done"
    /\ UNCHANGED <<selection, scroll, events, loopfixed>>

NextLoops == EndLoopStep \/ EndLoopExit \/ ResizeLoopStep \/ ResizeLoopExit

\* The thread keeps running: a loop that can take a step takes one.
SpecLoops == InitLoops /\ [][NextLoops]_vars /\ WF_vars(NextLoops)

---------------------------------------------------------------------------
(* Properties.                                                             *)

Max(a, b) == IF a > b THEN a ELSE b

\* The session is inside run()'s loop.
Running == pc \in {"handle_event", "handle_actions"}

PromptModes == {"Rename", "Add", "Search"}

\* The prompt's logical cursor: terminal column - 4.
LogicalCursor == cursor - PromptColumn

Names(listing) == {listing[i].name : i \in 1..Len(listing)}

\* C1 (as claimed): whenever the listing is not empty, the selection is on
\* a row draw() renders: scroll <= selection < scroll + visible_rows, where
\* visible_rows = height - 3.
C1_ViewportContainment ==
    (Running /\ entries # <<>>)
        => (scroll <= selection /\ selection < scroll + VisibleRows)

\* A step that applies MoveUp, MoveDown, Home, End or a filter change
\* (ToggleHidden, a character typed or deleted in Search) to the end.
NavOrFilterStep ==
    /\ pc = "handle_actions" /\ actions # <<>>
    /\ \/ mode = "Normal" /\ Head(actions).type \in
              {"MoveUp", "MoveDown", "Home", "End", "ToggleHidden"}
       \/ mode = "Search" /\ Head(actions).type = "Input"
              /\ Head(actions).key.code \in {"Char", "Backspace"}
    /\ pc' # "panicked"

SelectionBound == 0 <= selection /\ selection < Max(1, Len(entries))

\* C2 (as claimed): MoveUp, MoveDown, Home, End and filter changes keep
\* 0 <= selection < max(1, len(entries)), on any listing, also an empty one.
C2_SelectionBound ==
    [][(NavOrFilterStep /\ SelectionBound) => SelectionBound']_vars

\* C3 (as claimed): committing a Rename while the buffer equals the name the
\* entry had when Rename mode was entered requests no rename and leaves the
\* tree as it is, whatever events came in between.
C3_RenameIdempotence ==
    [][(ApplyingInput("Rename", "Enter") /\ rename_buffer = picked)
          => (io' # "rename" /\ tree' = tree)]_vars

\* C4 (as claimed): a failing filesystem call never ends the session: run()
\* does not return the error.
C4_SessionSurvivesIoError == pc # "returned_err"

\* C5 (as claimed): confirming Remove deletes the selected entry: afterwards
\* the mode is Normal, the refreshed listing does not hold the entry's name,
\* and selection = min(old selection, max(0, len(entries) - 1)).
C5_RemoveDeletesSelected ==
    [][(Applying("Remove", "Remove") /\ selection < Len(entries)
            /\ pc' # "panicked")
          => /\ mode' = "Normal"
             /\ EntryAt(entries, selection).name \notin Names(entries')
             /\ selection' = Min(selection, Max(0, Len(entries') - 1))]_vars

\* Entering a prompt puts the cursor where the claim says: at the end of
\* the name in Rename, at offset 0 of an empty buffer in Add and Search.
PromptEntry ==
    /\ (mode = "Normal" /\ mode' = "Rename")
          => (rename_buffer' = EntryAt(entries, selection).name
                /\ cursor' - PromptColumn = Len(rename_buffer'))
    /\ (mode = "Normal" /\ mode' = "Add")
          => (add_buffer' = <<>> /\ cursor' - PromptColumn = 0)
    /\ (mode = "Normal" /\ mode' = "Search")
          => (search_buffer' = <<>> /\ cursor' - PromptColumn = 0)

CursorInBuffer ==
    mode \in PromptModes
        => (0 <= LogicalCursor /\ LogicalCursor <= Len(PromptBuffer))

\* C6: in Rename, Add and Search mode 0 <= cursor <= len(buffer) after every
\* step, the cursor starting at the end of the name in Rename and at 0 on an
\* empty buffer in Add and Search.
C6_CursorInvariant == []CursorInBuffer /\ [][PromptEntry]_vars

\* The cursor has been moved into the middle of a two-character buffer.
C6_Witness ==
    /\ mode = "Add" /\ pc = "handle_event"
    /\ Len(add_buffer) = 2 /\ LogicalCursor = 1

\* C7 (as claimed): Backspace in a prompt does nothing when the cursor is at
\* offset 0, and otherwise removes the character before the cursor and
\* moves the cursor one to the left.
C7_BackspaceBeforeCursor ==
    [][(Applying(mode, "Input") /\ mode \in PromptModes
            /\ Head(actions).key.code = "Backspace" /\ pc' # "panicked")
          => IF LogicalCursor = 0
             THEN PromptBuffer' = PromptBuffer /\ cursor' = cursor
             ELSE /\ PromptBuffer' = StrRemove(PromptBuffer, LogicalCursor - 1)
                  /\ cursor' = cursor - 1]_vars

StarStep ==
    mode' # mode
        => \/ mode = "Normal" /\ mode' \in Modes \ {"Normal"}
           \/ mode # "Normal" /\ mode' = "Normal"

\* C8: the session starts in Normal, and every change of mode is from
\* Normal to another mode or from another mode back to Normal.
C8_ModeStar == mode = "Normal" /\ [][StarStep]_vars

\* A prompt was entered and left again.
C8_Witness ==
    mode = "Normal" /\ pc = "handle_event" /\ rename_buffer # <<>>

\* C9: should_close becomes true only by Close applied in Normal; Close in
\* any other mode (Esc there) sets the mode to Normal, leaves should_close
\* false and makes no filesystem call.
C9_EscQuitsOnlyFromNormal ==
    [][/\ (should_close' /\ ~should_close) => Applying("Normal", "Close")
       /\ (pc = "handle_actions" /\ actions # <<>> /\ mode # "Normal"
               /\ Head(actions).type = "Close")
             => (mode' = "Normal" /\ ~should_close' /\ io' = "none"
                   /\ tree' = tree /\ cwd' = cwd)]_vars

\* A prompt was left, and later Esc in Normal ended the session.
C9_Witness ==
    should_close /\ pc = "returned" /\ mode = "Normal" /\ rename_buffer # <<>>

\* What the claim says the query returns, stated on the raw names.
Wanted(t, dir, hidden, search) ==
    {FileName(n) : n \in
        {m \in ReadDir(t, dir) :
            /\ Contains(ToLowercase(FileName(m)), ToLowercase(search))
            /\ (hidden \/ FileName(m)[1] # ".")}}

Ascending(listing) ==
    \A i, j \in 1..Len(listing) :
        i < j => BytesLess(listing[i].name, listing[j].name)

\* C10: the query returns exactly the entries whose lower-cased name contains
\* the lower-cased filter and, unless show_hidden, whose name does not begin
\* with '.', in ascending byte order of the raw names; with an empty filter
\* and show_hidden it returns every entry of the directory.
C10_SnapshotQuery ==
    pc = "queried"
        => /\ Names(entries) = Wanted(tree, cwd, show_hidden, search_buffer)
           /\ Len(entries) = Cardinality(Names(entries))
           /\ Ascending(entries)
           /\ \A i \in 1..Len(entries) :
                 Node(cwd \o <<entries[i].name>>, entries[i].kind) \in tree
           /\ (search_buffer = <<>> /\ show_hidden)
                 => Len(entries) = Cardinality(ReadDir(tree, cwd))

\* The directory holds b, a and .a, hidden entries are off, the filter is
\* empty: the listing is a, b.
C10_Witness ==
    /\ pc = "queried" /\ ~show_hidden /\ search_buffer = <<>>
    /\ {FileName(n) : n \in tree} = {<<"b">>, <<"a">>, <<".", "a">>}
    /\ Len(entries) = 2
    /\ entries[1].name = <<"a">> /\ entries[2].name = <<"b">>

\* C11: from selection = 0, scroll = 0, after k MoveDown actions with
\* 0 <= k <= len - 1 the selection is k and scroll is
\* max(0, k - visible_rows + 1).  Under SpecFollow every event is a Down
\* key, so events counts the MoveDown actions applied.
C11_FollowScrolling ==
    (pc = "handle_event" /\ events <= Len(entries) - 1)
        => (selection = events /\ scroll = Max(0, events - VisibleRows + 1))

\* Three MoveDown actions on at least four entries with two visible rows:
\* the scroll has followed twice.
C11_Witness ==
    /\ pc = "handle_event" /\ events = 3 /\ Len(entries) >= 4
    /\ VisibleRows = 2 /\ selection = 3 /\ scroll = 2

\* C12 (as claimed): in every reachable state
\* scroll <= max(0, len(entries) - visible_rows), and with an empty listing
\* selection and scroll are both 0.
C12_ScrollClamp ==
    Running
        => /\ scroll <= Max(0, Len(entries) - VisibleRows)
           /\ entries = <<>> => (selection = 0 /\ scroll = 0)

\* C13 (as claimed): End sets selection to len(entries) - 1 and leaves
\* scroll at the least value >= the old scroll that has the selection
\* inside the window, never above max(0, len(entries) - visible_rows).
C13_EndMinimalScroll ==
    [][(Applying("Normal", "End") /\ pc' # "panicked")
          => /\ selection' = Len(entries) - 1
             /\ scroll' >= scroll
             /\ selection' < scroll' + VisibleRows
             /\ \A s \in scroll..(scroll' - 1) : ~(selection' < s + VisibleRows)
             /\ scroll' <= Max(0, Len(entries) - VisibleRows)]_vars

\* C14 (as claimed): a Resize to any new height, applied to a state with
\* the selection inside the window for the old height, ends with
\* scroll <= selection < scroll + visible_rows for the new height, and
\* never increases selection.
C14_ResizeReclamp ==
    [][(pc = "handle_event" /\ pc' # "panicked"
            /\ scroll <= selection /\ selection < scroll + VisibleRows)
          => /\ scroll' <= selection'
             /\ selection' < scroll' + (height' - ReservedRows)
             /\ selection' <= selection]_vars

\* C14 (amended): a Resize to a new height of at least 4 rows, applied to
\* a state with the selection inside the window for the old height, ends
\* with scroll <= selection < scroll + visible_rows for the new height, and
\* never increases selection.
C14_ResizeReclampFromFour ==
    [][(pc = "handle_event" /\ pc' # "panicked" /\ height' >= MinHeight
            /\ scroll <= selection /\ selection < scroll + VisibleRows)
          => /\ scroll' <= selection'
             /\ selection' < scroll' + (height' - ReservedRows)
             /\ selection' <= selection]_vars

\* The terminal has shrunk to four rows with more entries below the
\* selection: one row is visible and the selection is on it.
C14_Witness ==
    /\ pc = "handle_actions" /\ events = 1 /\ height = MinHeight
    /\ Head(actions).type = "Redraw"
    /\ scroll = 1 /\ selection = 1 /\ Len(entries) > 2

\* C15 (as claimed): committing Add requests create_dir when the buffer
\* ends with '/' and File::create otherwise; afterwards the mode is Normal,
\* the add buffer is empty and entries is the refreshed listing.
C15_AddCommit ==
    [][(Applying("Add", "Add") /\ pc' # "panicked")
          => /\ io' = IF EndsWith(add_buffer, "/") THEN "create_dir"
                                                   ELSE "file_create"
             /\ mode' = "Normal"
             /\ add_buffer' = <<>>
             /\ entries' = FetchEntriesSorted(tree', cwd', show_hidden',
                                              search_buffer')]_vars

C17_TerminalReleased ==
    pc \in {"returned", "returned_err"} => ~raw_mode

\* C18 (as claimed): while the mode is Rename or Remove the selection does
\* not change, so the selected entry is the one picked on entering the
\* mode, whatever Resize and key events arrive before Enter.
C18_SelectionStable ==
    /\ [](mode \in {"Rename", "Remove"}
            => (selection < Len(entries)
                  /\ EntryAt(entries, selection).name = picked))
    /\ [][(mode \in {"Rename", "Remove"} /\ mode' = mode)
             => selection' = selection]_vars

\* A MoveUp or MoveDown is applied to a non-empty listing with at least 4
\* rows and the selection inside the window.
MoveInsideWindow ==
    /\ pc = "handle_actions" /\ actions # <<>> /\ mode = "Normal"
    /\ Head(actions).type \in {"MoveUp", "MoveDown"}
    /\ entries # <<>> /\ height >= MinHeight
    /\ scroll <= selection /\ selection < scroll + VisibleRows

\* C19: MoveUp and MoveDown keep scroll <= selection < scroll +
\* visible_rows; scroll changes by exactly 1 when the selection leaves the
\* window by its top or bottom row, and not at all otherwise.
C19_MovePreservesContainment ==
    [][MoveInsideWindow
          => /\ scroll' <= selection' /\ selection' < scroll' + VisibleRows
             /\ scroll' =
                  IF Head(actions).type = "MoveUp"
                        /\ selection = scroll /\ selection > 0
                  THEN scroll - 1
                  ELSE IF Head(actions).type = "MoveDown"
                        /\ selection = scroll + VisibleRows - 1
                        /\ selection < Len(entries) - 1
                  THEN scroll + 1
                  ELSE scroll]_vars

\* C20 (as claimed): in every mode the Redraw queued by a Resize leads to
\* a redraw: the arm that takes it from the queue calls draw(), which in
\* the code is Normal's Redraw arm and the refresh ending the Search block.
C20_ResizeRedraws ==
    [][(pc = "handle_actions" /\ actions # <<>>
            /\ Head(actions).type = "Redraw")
          => (NormalRedraw \/ SearchIgnored)]_vars

\* A navigation key is applied as Input outside Normal, or is pressed in a
\* mode whose key table queues nothing for it.
NavKeyOutsideNormal ==
    \/ /\ pc = "handle_actions" /\ actions # <<>> /\ mode # "Normal"
       /\ Head(actions).type = "Input"
       /\ Head(actions).key.code \in {"Up", "Down", "Home", "End"}
    \/ /\ pc = "handle_event" /\ mode \in {"Remove", "Help"}
       /\ events' = events + 1 /\ actions' = actions

\* C21 (as claimed): in Rename, Remove, Add, Search and Help mode the keys
\* Up, Down, Home and End leave selection and scroll unchanged.
C21_NavigationKeysInert ==
    [][NavKeyOutsideNormal
          => (selection' = selection /\ scroll' = scroll)]_vars

\* A character is typed in Search, or one is deleted from its buffer.
SearchEdit ==
    \/ ApplyingInput("Search", "Char")
    \/ ApplyingInput("Search", "Backspace") /\ search_buffer # <<>>

\* C22: after every character typed or deleted in Search mode entries is
\* the snapshot query for the new search buffer and
\* selection <= max(0, len(entries) - 1); after Esc in Search mode the
\* buffer is empty, the mode is Normal and entries is the unfiltered listing.
C22_SearchLiveFilter ==
    [][/\ SearchEdit
             => /\ pc' # "panicked"
                /\ entries' = FetchEntriesSorted(tree', cwd', show_hidden',
                                                 search_buffer')
                /\ selection' <= Max(0, Len(entries') - 1)
       /\ Applying("Search", "Close")
             => /\ search_buffer' = <<>>
                /\ mode' = "Normal"
                /\ entries' = FetchEntriesSorted(tree', cwd', show_hidden',
                                                 <<>>)]_vars

\* In the start directory the filter B is typed: B and aB are listed.
C22_Witness ==
    /\ mode = "Search" /\ pc = "handle_event" /\ cwd = StartDir
    /\ tree = InitTree /\ ~show_hidden
    /\ search_buffer = <<"B">> /\ Len(entries) = 2

ClassifiedIn(m) ==
    {"Redraw"} \cup
    {KeyActions(m, key, ctrl)[1].type :
        <<key, ctrl>> \in {kc \in (NamedKeys \cup CommandKeys \cup PromptKeys)
                                     \X BOOLEAN :
                              KeyActions(m, kc[1], kc[2]) # <<>>}}

\* C24 (as claimed): the queue never holds more than one action, it is
\* empty whenever handle_actions has returned, and an action is applied in
\* the mode in which its key was classified.
C24_QueueDiscipline ==
    /\ Len(actions) <= 1
    /\ pc \in {"handle_event", "returned_err"} => actions = <<>>
    /\ (pc = "handle_actions" /\ actions # <<>>)
          => Head(actions).type \in ClassifiedIn(mode)

\* C25 (as claimed): after a Rename commit
\* selection < max(1, len(entries)) for the refreshed entries.
C25_RenameKeepsSelectionInside ==
    [][(ApplyingInput("Rename", "Enter")
            /\ pc' \notin {"panicked", "returned_err"})
          => selection' < Max(1, Len(entries'))]_vars

\* C26 (as claimed): with at least 4 rows ScrollUp, ScrollDown and End
\* never overflow a u16 subtraction: the arm neither panics nor wraps.
C26_NoUnderflow ==
    [][(pc = "handle_actions" /\ actions # <<>> /\ mode = "Normal"
            /\ Head(actions).type \in {"ScrollUp", "ScrollDown", "End"}
            /\ height >= MinHeight /\ ~wraps)
          => (pc' # "panicked" /\ ~wraps')]_vars

\* C27: in Rename and Remove mode selection < len(entries); Rename, Remove
\* and Open applied in Normal with selection >= len(entries) leave the
\* mode Normal and make no filesystem call.
C27_SelectedEntryExists ==
    /\ [](mode \in {"Rename", "Remove"} => selection < Len(entries))
    /\ [][(pc = "handle_actions" /\ actions # <<>> /\ mode = "Normal"
             /\ Head(actions).type \in {"Rename", "Remove", "Open"}
             /\ selection >= Len(entries))
           => (mode' = "Normal" /\ io' = "none"
                 /\ tree' = tree /\ cwd' = cwd)]_vars

\* Remove is open and a Resize has moved the selection to another entry
\* than the one picked: it still indexes an entry.
C27_Witness ==
    /\ mode = "Remove" /\ pc = "handle_event"
    /\ selection < Len(entries)
    /\ EntryAt(entries, selection).name # picked

\* C28: in Normal, Rename and Remove mode, once the first Redraw has been
\* applied and no action is pending, entries is the snapshot query for
\* the working directory, show_hidden and the search buffer.
C28_CachedListing ==
    (pc # "initialize" /\ actions = <<>>
        /\ mode \in {"Normal", "Rename", "Remove"})
        => entries = FetchEntriesSorted(tree, cwd, show_hidden, search_buffer)

\* The file aa has been created in the start directory and is listed.
C28_Witness ==
    /\ pc = "handle_event" /\ mode = "Normal" /\ io = "file_create"
    /\ cwd = StartDir /\ Node(StartDir \o <<<<"a", "a">>>>, "file") \in tree
    /\ Len(entries) = 4

\* C29: with at least 4 rows both loops terminate.  End's loop has run at
\* most selection - scroll iterations (scroll as it was on entry, the
\* difference saturating), every iteration of Resize's loop lowers a
\* selection of at least 1 by exactly 1, so there are at most selection of
\* them, and each loop is eventually left.
C29_LoopsTerminate ==
    /\ [](pc \in {"end_loop", "end_done"}
            => events <= SatSub(selection, scroll - events))
    /\ [][(pc = "resize_loop" /\ pc' = "resize_loop")
            => (selection >= 1 /\ selection' = selection - 1
                  /\ events' = events + 1)]_vars
    /\ <>(pc \in {"end_done", "resize_done"})

\* End's loop has been left after exactly selection - scroll = 2
\* iterations.
C29_Witness == pc = "end_done" /\ events = 2 /\ scroll = selection

\* C30 (as claimed): the add buffer is empty whenever the mode is not Add.
C30_AddBufferEmpty == mode # "Add" => add_buffer = <<>>

=============================================================================
